---- MODULE Spec2Model ----
(***************************************************************************)
(* Model of the APS Mangla assistant: the knowledge base store and the     *)
(* TF-IDF retrieval engine of DataManager (src/data_manager.py).           *)
(*                                                                         *)
(* A text is a sequence of words (the maximal runs of word characters of   *)
(* the string, in order, case kept).  The vectorizer lowercases, keeps the *)
(* tokens of two or more characters, removes English stop words and builds *)
(* unigrams and bigrams.  Weights are binary floating point numbers in the *)
(* program; the model keeps their rounding with FracBits fractional bits   *)
(* (every multiplication, division and square root rounds to nearest).     *)
(***************************************************************************)
EXTENDS Integers, Sequences, FiniteSets, TLC

----------------------------------------------------------------------------
(* Bounds of the model *)

MaxRecords == 2
MaxId == 2
FracBits == 10
\* a conversation is followed while the session holds fewer exchanges
MaxTurns == 2

----------------------------------------------------------------------------
(* Text analysis: TfidfVectorizer(stop_words='english', ngram_range=(1, 2), *)
(* max_features=1000, lowercase=True)                                      *)

max_features == 1000

\* str.lower() on the words used in the model
Lower(w) ==
  CASE w = "Who" -> "who"
    [] w = "What" -> "what"
    [] w = "APS" -> "aps"
    [] w = "Mangla" -> "mangla"
    [] w = "Talat" -> "talat"
    [] w = "Wazir" -> "wazir"
    [] w = "ICS" -> "ics"
    [] w = "Principal" -> "principal"
    [] w = "Physics" -> "physics"
    [] w = "Maths" -> "maths"
    [] w = "Computer" -> "computer"
    [] w = "English" -> "english"
    [] w = "Urdu" -> "urdu"
    [] w = "Islamiyat" -> "islamiyat"
    [] w = "For" -> "for"
    [] w = "Pak" -> "pak"
    [] w = "Studies" -> "studies"
    [] w = "I" -> "i"
    [] OTHER -> w

lower(text) == [i \in 1..Len(text) |-> Lower(text[i])]

\* the words of sklearn's ENGLISH_STOP_WORDS that occur in the model's texts
stop_words ==
  {"who", "is", "the", "of", "what", "are", "in", "and", "for", "you", "am", "i"}

RECURSIVE SelectTokens(_)
SelectTokens(ws) ==
  IF ws = <<>> THEN <<>>
  ELSE LET w == Lower(Head(ws))
       IN  IF Len(w) >= 2 /\ w \notin stop_words
           THEN <<w>> \o SelectTokens(Tail(ws))
           ELSE SelectTokens(Tail(ws))

\* build_analyzer(): preprocess (lowercase), tokenize (\b\w\w+\b), drop stop words
Tokens(text) == SelectTokens(text)

\* word n-grams for ngram_range = (1, 2): a term is a tuple of one or two tokens
Terms(toks) ==
  {<<toks[i]>> : i \in 1..Len(toks)} \cup
  {<<toks[i], toks[i + 1]>> : i \in 1..(Len(toks) - 1)}

\* term frequency of a term in a token sequence
Count(toks, term) ==
  IF Len(term) = 1
  THEN Cardinality({i \in 1..Len(toks) : toks[i] = term[1]})
  ELSE Cardinality({i \in 1..(Len(toks) - 1) :
                      toks[i] = term[1] /\ toks[i + 1] = term[2]})

\* the sum of the second components of a set of pairs
RECURSIVE SumOver(_)
SumOver(entries) ==
  IF entries = {} THEN 0
  ELSE LET e == CHOOSE y \in entries : TRUE
       IN  e[2] + SumOver(entries \ {e})

\* the terms of every document of a corpus, as pairs <<document, terms>>
DocTerms(corpus) ==
  {<<i, Terms(Tokens(corpus[i]))>> : i \in 1..Len(corpus)}

AllTerms(corpus) == UNION {d[2] : d \in DocTerms(corpus)}

\* total frequency of a term over the corpus (used by the max_features cut)
TotalCount(corpus, term) ==
  SumOver({<<i, Count(Tokens(corpus[i]), term)>> : i \in 1..Len(corpus)})

\* vocabulary_ after fit(corpus): every term, cut to the max_features most frequent
Vocabulary(corpus) ==
  LET all == AllTerms(corpus)
  IN  IF Cardinality(all) <= max_features THEN all
      ELSE CHOOSE V \in SUBSET all :
             /\ Cardinality(V) = max_features
             /\ \A t \in V, u \in all \ V :
                  TotalCount(corpus, t) >= TotalCount(corpus, u)

\* fit raises ValueError("empty vocabulary ...") when no term is left
FitRaises(corpus) == Vocabulary(corpus) = {}

----------------------------------------------------------------------------
(* Arithmetic: a weight v is kept as the integer round(v * 2^FracBits) *)

One == 2 ^ FracBits

\* round to nearest, ties to even
RoundDiv(n, d) ==
  LET q == n \div d
      r == n % d
  IN  IF 2 * r < d THEN q
      ELSE IF 2 * r > d THEN q + 1
      ELSE IF q % 2 = 0 THEN q ELSE q + 1

FMul(a, b) == RoundDiv(a * b, One)
FDiv(a, b) == RoundDiv(a * One, b)

RECURSIVE FloorSqrt(_, _, _)
FloorSqrt(x, lo, hi) ==
  IF lo >= hi THEN lo
  ELSE LET mid == (lo + hi + 1) \div 2
       IN  IF mid * mid <= x THEN FloorSqrt(x, mid, hi)
           ELSE FloorSqrt(x, lo, mid - 1)

\* square root of a weight, rounded to nearest
FSqrt(a) ==
  LET x == a * One
      r == FloorSqrt(x, 0, 46340)
  IN  IF x - r * r > r THEN r + 1 ELSE r

\* ln(p / q) for integers p >= q >= 1: 2 * atanh((p - q) / (p + q))
RECURSIVE AtanhSeries(_, _, _)
AtanhSeries(zpow, zsq, k) ==
  LET term == RoundDiv(zpow, k)
  IN  IF term = 0 THEN 0
      ELSE term + AtanhSeries(FMul(zpow, zsq), zsq, k + 2)

FLn(p, q) ==
  LET z == RoundDiv((p - q) * One, p + q)
  IN  2 * AtanhSeries(z, FMul(z, z), 1)

\* vectorizer.fit(corpus): vocabulary_, and the document count and the
\* documents' terms from which idf_ is computed
Fit(corpus) ==
  [n |-> Len(corpus), vocabulary |-> Vocabulary(corpus),
   docs |-> DocTerms(corpus)]

\* idf_ of TfidfTransformer(smooth_idf=True): ln((1 + n) / (1 + df)) + 1
Idf(model, term) ==
  LET df == Cardinality({d \in model.docs : term \in d[2]})
  IN  FLn(1 + model.n, 1 + df) + One

\* A row of a sparse matrix is the set of its stored entries <<term, weight>>.
Weight(row, term) == SumOver({e \in row : e[1] = term})

\* normalize(X, norm='l2') on one row; a zero row is left as it is
Normalize(row) ==
  LET norm == FSqrt(SumOver({<<e[1], FMul(e[2], e[2])>> : e \in row}))
  IN  IF norm = 0 THEN row
      ELSE {<<e[1], FDiv(e[2], norm)>> : e \in row}

\* vectorizer.transform([text]) with a fitted model: tf * idf, then l2 norm;
\* terms outside the vocabulary are ignored
Transform(model, text) ==
  LET toks == Tokens(text)
  IN  Normalize({<<t, Count(toks, t) * Idf(model, t)>> :
                   t \in Terms(toks) \cap model.vocabulary})

\* cosine_similarity of two rows: normalize both, then the dot product
Cosine(x, y) ==
  LET xn == Normalize(x)
      yn == Normalize(y)
  IN  SumOver({<<e[1], FMul(e[2], Weight(yn, e[1]))>> : e \in xn})

----------------------------------------------------------------------------
(* The knowledge base store and the engine *)

VARIABLES
  qa_file,           \* data/qa_data.json: [readable, qa_pairs]
  qa_pairs,          \* self.qa_pairs
  questions,         \* self.questions
  answers,           \* self.answers
  question_vectors,  \* self.question_vectors
  answer_vectors,    \* self.answer_vectors
  vectorizer,        \* self.vectorizer: the corpus of its last successful fit
  last,              \* the last call on the DataManager and what it returned
  search_results,    \* what the last get_contextual_search_results returned
  session,           \* the Flask session of the client
  response,          \* the last request of the client and the response to it
  threads            \* the call that each request thread is in, and its locals

vars == <<qa_file, qa_pairs, questions, answers, question_vectors,
          answer_vectors, vectorizer, last, search_results, session, response,
          threads>>

\* the variables of the DataManager and of the web layer
dm_vars == <<qa_file, qa_pairs, questions, answers, question_vectors,
             answer_vectors, vectorizer, last>>
web_vars == <<search_results, session, response, threads>>

\* Python's None, as an answer and as a matrix
None == <<"None">>
NoVectors == [fit |-> <<>>, texts |-> <<>>]

\* a query that is not a string: query.lower() raises
NotAString == <<"NotAString">>

\* the first record of default_qa_data of _initialize_files
default_qa_pair ==
  [id |-> 1,
   question |-> <<"Who", "is", "the", "principal", "of", "APS", "Mangla">>,
   answer |-> <<"Talat", "Wazir", "is", "the", "principal", "of", "APS",
                "Mangla">>]

\* the (question, answer) inputs of add and update: the question of the default
\* record with another answer, a question with the same terms in other words
\* whose answer has these terms too, and a pair made of stop words and
\* one-letter words only
QAInputs ==
  { <<<<"Who", "is", "the", "principal", "of", "APS", "Mangla">>, <<"Wazir">>>>,
    <<<<"Principal", "of", "APS", "Mangla">>,
      <<"the", "principal", "of", "APS", "Mangla">>>>,
    <<<<"Who", "are", "you">>, <<"I", "am">>>> }

\* the queries of search_qa
Queries ==
  { <<"Who", "is", "the", "principal", "of", "APS", "Mangla">>,
    <<"Principal", "of", "APS", "Mangla">>,
    <<"Who", "is", "Talat", "Wazir">>,
    <<"Who", "is", "the", "principal">>,
    <<"Who", "are", "you">>,
    NotAString }

Ids == 1..MaxId

\* the outcome of writing the file: written, not opened (file untouched),
\* or opened and truncated but not written completely
SaveOutcomes == {"ok", "denied", "truncated"}

Ids_of(pairs) == {pairs[i].id : i \in 1..Len(pairs)}

Max(S) == IF S = {} THEN 0 ELSE CHOOSE m \in S : \A x \in S : x <= m

\* _save_qa_data: every exception is logged and swallowed
save_qa_data(file, data, outcome) ==
  CASE outcome = "ok" -> [readable |-> TRUE, qa_pairs |-> data]
    [] outcome = "denied" -> file
    [] outcome = "truncated" -> [readable |-> FALSE, qa_pairs |-> <<>>]

\* variant: a failed read gives the default record
load_qa_data_or_default(file, readOk) ==
  IF readOk /\ file.readable THEN file.qa_pairs ELSE <<default_qa_pair>>

\* _load_qa_data followed by .get('qa_pairs', []): a failed read gives []
load_qa_data(file, readOk) ==
  IF readOk /\ file.readable THEN file.qa_pairs ELSE <<>>

\* the fields of a DataManager before _prepare_search_data has run
NewSelf ==
  [qa_pairs |-> <<>>, questions |-> <<>>, answers |-> <<>>,
   question_vectors |-> NoVectors, answer_vectors |-> NoVectors,
   vectorizer |-> [fitted |-> FALSE, corpus |-> <<>>]]

\* the fields of the DataManager
Self ==
  [qa_pairs |-> qa_pairs, questions |-> questions, answers |-> answers,
   question_vectors |-> question_vectors, answer_vectors |-> answer_vectors,
   vectorizer |-> vectorizer]

\* variant: fit adds the corpus to the one the vectorizer was fitted on before
vectorizer_fit_accumulating(self, corpus) ==
  [fitted |-> TRUE, corpus |-> self.vectorizer.corpus \o corpus]

\* self.vectorizer.fit(combined_texts): the vocabulary and the idf weights are
\* computed anew from the corpus
vectorizer_fit(self, corpus) == [fitted |-> TRUE, corpus |-> corpus]

\* _prepare_search_data, lines 110-127: the engine fields for a list of pairs
\* that is not empty
\* variant: the two matrices are assigned the other way round
fit_and_transform_swapped(self, pairs) ==
  LET qs == [i \in 1..Len(pairs) |-> pairs[i].question]
      as == [i \in 1..Len(pairs) |-> pairs[i].answer]
      combined_texts ==
        [i \in 1..Len(pairs) |-> pairs[i].question \o pairs[i].answer]
      fitted == vectorizer_fit(self, combined_texts)
  IN  IF FitRaises(combined_texts)
      THEN [qa_pairs |-> pairs, questions |-> qs, answers |-> as,
            question_vectors |-> NoVectors, answer_vectors |-> NoVectors,
            vectorizer |-> self.vectorizer]
      ELSE [qa_pairs |-> pairs, questions |-> qs, answers |-> as,
            question_vectors |-> [fit |-> fitted.corpus, texts |-> as],
            answer_vectors |-> [fit |-> fitted.corpus, texts |-> qs],
            vectorizer |-> fitted]

fit_and_transform(self, pairs) ==
  LET qs == [i \in 1..Len(pairs) |-> pairs[i].question]
      as == [i \in 1..Len(pairs) |-> pairs[i].answer]
      combined_texts ==
        [i \in 1..Len(pairs) |-> pairs[i].question \o pairs[i].answer]
      fitted == vectorizer_fit(self, combined_texts)
  IN  IF FitRaises(combined_texts)
      THEN [qa_pairs |-> pairs, questions |-> qs, answers |-> as,
            question_vectors |-> NoVectors, answer_vectors |-> NoVectors,
            vectorizer |-> self.vectorizer]
      ELSE [qa_pairs |-> pairs, questions |-> qs, answers |-> as,
            question_vectors |-> [fit |-> fitted.corpus, texts |-> qs],
            answer_vectors |-> [fit |-> fitted.corpus, texts |-> as],
            vectorizer |-> fitted]

\* variant: an empty list leaves the fields as they were
prepare_search_data_keeps_index(self, pairs) ==
  IF pairs = <<>> THEN self
  ELSE fit_and_transform(self, pairs)

\* _prepare_search_data: the engine fields after a rebuild from the loaded pairs
prepare_search_data(self, pairs) ==
  IF pairs = <<>>
  THEN [qa_pairs |-> <<>>, questions |-> <<>>, answers |-> <<>>,
        question_vectors |-> NoVectors, answer_vectors |-> NoVectors,
        vectorizer |-> self.vectorizer]
  ELSE fit_and_transform(self, pairs)

SetEngine(e) ==
  /\ qa_pairs' = e.qa_pairs
  /\ questions' = e.questions
  /\ answers' = e.answers
  /\ question_vectors' = e.question_vectors
  /\ answer_vectors' = e.answer_vectors
  /\ vectorizer' = e.vectorizer

----------------------------------------------------------------------------
(* search_qa *)

\* min_confidence = 0.1
min_confidence == RoundDiv(One, 10)

\* variant: the last index of the maximum
ArgMaxLast(s) ==
  CHOOSE i \in 1..Len(s) :
    /\ \A j \in 1..Len(s) : s[j] <= s[i]
    /\ \A j \in (i + 1)..Len(s) : s[j] < s[i]

\* np.argmax: the first index of the maximum
ArgMax(s) ==
  CHOOSE i \in 1..Len(s) :
    /\ \A j \in 1..Len(s) : s[j] <= s[i]
    /\ \A j \in 1..(i - 1) : s[j] < s[i]

\* cosine_similarity(query_vector, matrix)[0]; the rows of the matrix were
\* transformed by the model fitted on matrix.fit
Similarities(query_vector, matrix, model) ==
  [i \in 1..Len(matrix.texts) |->
     Cosine(query_vector, Transform(model, matrix.texts[i]))]

NoMatch == [answer |-> None, confidence |-> 0, search_type |-> "no_match",
            raised |-> FALSE]

\* what makes the body of the try block raise: a query without lower(), a
\* vectorizer that was never fitted, or a matrix of another shape
SearchRaises(self, query) ==
  \/ query = NotAString
  \/ ~self.vectorizer.fitted
  \/ self.question_vectors.fit # self.vectorizer.corpus
  \/ self.answer_vectors.fit # self.vectorizer.corpus

\* variant: the except clause lets the exception out
search_reraise == [NoMatch EXCEPT !.raised = TRUE]

\* the except clause of search_qa
search_except == NoMatch

\* variant: a tie of the two sides goes to the answer side
best_match_strict(pairs, max_q_idx, max_q_similarity, max_a_idx, max_a_similarity) ==
  IF max_q_similarity > max_a_similarity
     /\ max_q_similarity >= min_confidence
  THEN [answer |-> pairs[max_q_idx].answer,
        confidence |-> max_q_similarity,
        search_type |-> "question_match", raised |-> FALSE]
  ELSE IF max_a_similarity >= min_confidence
  THEN [answer |-> pairs[max_a_idx].answer,
        confidence |-> max_a_similarity,
        search_type |-> "reverse_lookup", raised |-> FALSE]
  ELSE [answer |-> None,
        confidence |-> IF max_q_similarity >= max_a_similarity
                       THEN max_q_similarity ELSE max_a_similarity,
        search_type |-> "no_match", raised |-> FALSE]

\* the decision of search_qa on the best rows of both sides
best_match(pairs, max_q_idx, max_q_similarity, max_a_idx, max_a_similarity) ==
  IF max_q_similarity >= max_a_similarity
     /\ max_q_similarity >= min_confidence
  THEN [answer |-> pairs[max_q_idx].answer,
        confidence |-> max_q_similarity,
        search_type |-> "question_match", raised |-> FALSE]
  ELSE IF max_a_similarity >= min_confidence
  THEN [answer |-> pairs[max_a_idx].answer,
        confidence |-> max_a_similarity,
        search_type |-> "reverse_lookup", raised |-> FALSE]
  ELSE [answer |-> None,
        confidence |-> IF max_q_similarity >= max_a_similarity
                       THEN max_q_similarity ELSE max_a_similarity,
        search_type |-> "no_match", raised |-> FALSE]

\* search_qa(query) on the engine fields self
search_qa(self, query) ==
  IF self.qa_pairs = <<>> \/ self.question_vectors = NoVectors THEN NoMatch
  ELSE IF SearchRaises(self, query) THEN search_except
  ELSE
    LET model == Fit(self.vectorizer.corpus)
        query_vector == Transform(model, lower(query))
        question_similarities ==
          Similarities(query_vector, self.question_vectors, model)
        max_q_idx == ArgMax(question_similarities)
        answer_similarities ==
          Similarities(query_vector, self.answer_vectors, model)
        max_a_idx == ArgMax(answer_similarities)
    IN  best_match(self.qa_pairs, max_q_idx, question_similarities[max_q_idx],
                   max_a_idx, answer_similarities[max_a_idx])

----------------------------------------------------------------------------
(* Strings of the web layer.  A message is a sequence of tokens: its words, *)
(* in order, and the spaces and question marks between them.  Letters      *)
(* spells a token, so that Chars(message) is the string character by       *)
(* character, and Words(message) is the text that search_qa receives.      *)

Letters(w) ==
  CASE w = "hi" -> <<"h", "i">>
    [] w = "hello" -> <<"h", "e", "l", "l", "o">>
    [] w = "hey" -> <<"h", "e", "y">>
    [] w = "salam" -> <<"s", "a", "l", "a", "m">>
    [] w = "assalam" -> <<"a", "s", "s", "a", "l", "a", "m">>
    [] w = "assalamualaikum" -> <<"a", "s", "s", "a", "l", "a", "m", "u", "a", "l", "a", "i", "k", "u", "m">>
    [] w = "good" -> <<"g", "o", "o", "d">>
    [] w = "morning" -> <<"m", "o", "r", "n", "i", "n", "g">>
    [] w = "afternoon" -> <<"a", "f", "t", "e", "r", "n", "o", "o", "n">>
    [] w = "evening" -> <<"e", "v", "e", "n", "i", "n", "g">>
    [] w = "bye" -> <<"b", "y", "e">>
    [] w = "goodbye" -> <<"g", "o", "o", "d", "b", "y", "e">>
    [] w = "see" -> <<"s", "e", "e">>
    [] w = "you" -> <<"y", "o", "u">>
    [] w = "thanks" -> <<"t", "h", "a", "n", "k", "s">>
    [] w = "thank" -> <<"t", "h", "a", "n", "k">>
    [] w = "khuda" -> <<"k", "h", "u", "d", "a">>
    [] w = "hafiz" -> <<"h", "a", "f", "i", "z">>
    [] w = "how" -> <<"h", "o", "w">>
    [] w = "are" -> <<"a", "r", "e">>
    [] w = "what's" -> <<"w", "h", "a", "t", "'", "s">>
    [] w = "up" -> <<"u", "p">>
    [] w = "is" -> <<"i", "s">>
    [] w = "it" -> <<"i", "t">>
    [] w = "going" -> <<"g", "o", "i", "n", "g">>
    [] w = "what" -> <<"w", "h", "a", "t">>
    [] w = "can" -> <<"c", "a", "n">>
    [] w = "do" -> <<"d", "o">>
    [] w = "know" -> <<"k", "n", "o", "w">>
    [] w = "who" -> <<"w", "h", "o">>
    [] w = "when" -> <<"w", "h", "e", "n">>
    [] w = "where" -> <<"w", "h", "e", "r", "e">>
    [] w = "why" -> <<"w", "h", "y">>
    [] w = "which" -> <<"w", "h", "i", "c", "h">>
    [] w = "and" -> <<"a", "n", "d">>
    [] w = "else" -> <<"e", "l", "s", "e">>
    [] w = "more" -> <<"m", "o", "r", "e">>
    [] w = "tell" -> <<"t", "e", "l", "l">>
    [] w = "me" -> <<"m", "e">>
    [] w = "anything" -> <<"a", "n", "y", "t", "h", "i", "n", "g">>
    [] w = "about" -> <<"a", "b", "o", "u", "t">>
    [] w = "the" -> <<"t", "h", "e">>
    [] w = "rest" -> <<"r", "e", "s", "t">>
    [] w = "continue" -> <<"c", "o", "n", "t", "i", "n", "u", "e">>
    [] w = "go" -> <<"g", "o">>
    [] w = "on" -> <<"o", "n">>
    [] w = "others" -> <<"o", "t", "h", "e", "r", "s">>
    [] w = "info" -> <<"i", "n", "f", "o">>
    [] w = "information" -> <<"i", "n", "f", "o", "r", "m", "a", "t", "i", "o", "n">>
    [] w = "show" -> <<"s", "h", "o", "w">>
    [] w = "this" -> <<"t", "h", "i", "s">>
    [] w = "Who" -> <<"W", "h", "o">>
    [] w = "of" -> <<"o", "f">>
    [] w = "principal" -> <<"p", "r", "i", "n", "c", "i", "p", "a", "l">>
    [] w = "APS" -> <<"A", "P", "S">>
    [] w = "Mangla" -> <<"M", "a", "n", "g", "l", "a">>
    [] w = "Talat" -> <<"T", "a", "l", "a", "t">>
    [] w = "Wazir" -> <<"W", "a", "z", "i", "r">>
    [] OTHER -> <<w>>

RECURSIVE Chars(_)
Chars(message) ==
  IF message = <<>> THEN <<>>
  ELSE Letters(Head(message)) \o Chars(Tail(message))

Words(message) == SelectSeq(message, LAMBDA t : t \notin {" ", "?"})

\* str.lower() on one character
lower_char(c) ==
  CASE c = "W" -> "w"
    [] c = "A" -> "a"
    [] c = "P" -> "p"
    [] c = "S" -> "s"
    [] c = "M" -> "m"
    [] c = "T" -> "t"
    [] OTHER -> c

str_lower(s) == [i \in 1..Len(s) |-> lower_char(s[i])]

\* str.strip(): without the leading and trailing whitespace
RECURSIVE strip(_)
strip(s) ==
  IF s = <<>> THEN s
  ELSE IF Head(s) = " " THEN strip(Tail(s))
  ELSE IF s[Len(s)] = " " THEN strip(SubSeq(s, 1, Len(s) - 1))
  ELSE s

\* sub in s
Contains(s, sub) ==
  \E i \in 1..(Len(s) - Len(sub) + 1) : SubSeq(s, i, i + Len(sub) - 1) = sub

\* s.endswith(suffix)
EndsWith(s, suffix) ==
  /\ Len(s) >= Len(suffix)
  /\ SubSeq(s, Len(s) - Len(suffix) + 1, Len(s)) = suffix

\* len(s.split()): the number of maximal runs without whitespace
CountFields(s) ==
  Cardinality({i \in 1..Len(s) : s[i] # " " /\ (i = 1 \/ s[i - 1] = " ")})

\* \w of the regular expressions, on the characters of the model
is_word_char(c) == c \notin {" ", "?", "'"}

\* \b between the characters i - 1 and i of s
word_boundary(s, i) ==
  (i > 1 /\ is_word_char(s[i - 1])) # (i <= Len(s) /\ is_word_char(s[i]))

\* An alternative of a pattern is a sequence of literals with \s+ between
\* them.  The position after a match of the alternative that starts at i, or
\* 0 when there is none (a literal starts with a letter, so \s+ takes every
\* space that follows)
RECURSIVE MatchEnd(_, _, _)
MatchEnd(s, i, alt) ==
  LET lit == Head(alt)
      j == i + Len(lit)
      k == CHOOSE n \in j..(Len(s) + 1) :
             /\ \A m \in j..(n - 1) : s[m] = " "
             /\ n = Len(s) + 1 \/ s[n] # " "
  IN  IF j - 1 > Len(s) THEN 0
      ELSE IF SubSeq(s, i, j - 1) # lit THEN 0
      ELSE IF Len(alt) = 1 THEN j
      ELSE IF k = j THEN 0
      ELSE MatchEnd(s, k, Tail(alt))

\* re.search(r'\b(alt1|alt2|...)\b', s)
re_search(alts, s) ==
  \E alt \in alts, i \in 1..Len(s) :
    /\ word_boundary(s, i)
    /\ LET e == MatchEnd(s, i, alt)
       IN  e # 0 /\ word_boundary(s, e)

\* the alternative word1\s+word2\s+... of a pattern
Alt(ws) == [i \in 1..Len(ws) |-> Letters(ws[i])]

----------------------------------------------------------------------------
(* get_contextual_search_results *)

question_words == {"what", "who", "when", "where", "why", "how", "which"}

greeting_patterns ==
  { Alt(<<"hi">>), Alt(<<"hello">>), Alt(<<"hey">>), Alt(<<"salam">>),
    Alt(<<"assalam">>), Alt(<<"assalamualaikum">>),
    Alt(<<"good", "morning">>), Alt(<<"good", "afternoon">>),
    Alt(<<"good", "evening">>) }

farewell_patterns ==
  { Alt(<<"bye">>), Alt(<<"goodbye">>), Alt(<<"see", "you">>),
    Alt(<<"thanks">>), Alt(<<"thank", "you">>), Alt(<<"khuda", "hafiz">>) }

small_talk_patterns ==
  { Alt(<<"how", "are", "you">>), Alt(<<"what's", "up">>),
    Alt(<<"how", "is", "it", "going">>),
    Alt(<<"what", "can", "you", "do">>), Alt(<<"what", "do", "you", "know">>) }

\* any(word in query_lower for word in question_words) or query.endswith('?')
is_question(query, query_lower) ==
  \/ \E word \in question_words : Contains(query_lower, Letters(word))
  \/ EndsWith(query, <<"?">>)

\* the query_analysis of get_contextual_search_results, query being the
\* string character by character
query_analysis(query) ==
  LET query_lower == strip(str_lower(query))
  IN  [is_question |-> is_question(query, query_lower),
       is_greeting |-> re_search(greeting_patterns, query_lower),
       is_farewell |-> re_search(farewell_patterns, query_lower),
       is_small_talk |-> re_search(small_talk_patterns, query_lower),
       processed_query |-> query_lower]

\* the dictionary that get_contextual_search_results returns for the result
\* found of search_qa
contextual_results(found, query) ==
  [answer |-> found.answer, confidence |-> found.confidence,
   search_type |-> found.search_type,
   query_analysis |-> query_analysis(Chars(query))]

get_contextual_search_results(self, query) ==
  contextual_results(search_qa(self, Words(query)), query)

NoSearchResults ==
  [called |-> FALSE, query |-> <<>>,
   results |-> [answer |-> None, confidence |-> 0, search_type |-> "no_match",
                query_analysis |-> query_analysis(<<>>)]]

----------------------------------------------------------------------------
(* Calls *)

\* a session without a cookie: no conversation_memory, no admin_authenticated
\* a key with a string value that is absent from a dictionary
Absent == "None"

NewSession ==
  [conversation_memory |-> <<>>, admin_authenticated |-> FALSE,
   admin_username |-> Absent]

NoResponse == [route |-> "none"]

\* the threads of the server that handle requests at the same time
Threads == {1, 2}

\* a thread that is in no call of the DataManager
IdleThread ==
  [pc |-> "idle", op |-> "none", question |-> <<>>, answer |-> <<>>,
   query |-> <<>>, loaded |-> <<>>, new_id |-> 0, pairs |-> <<>>,
   query_vector |-> NoVectors, question_similarities |-> NoVectors,
   answer_similarities |-> NoVectors, returned |-> FALSE, result |-> NoMatch]


NoCall == [op |-> "init", qa_id |-> 0, question |-> <<>>, answer |-> <<>>,
           query |-> <<>>, returned |-> FALSE, raised |-> FALSE,
           result |-> NoMatch]

Init ==
  /\ qa_file \in { [readable |-> TRUE, qa_pairs |-> <<default_qa_pair>>],
                   [readable |-> TRUE, qa_pairs |-> <<>>] }
  /\ LET e == prepare_search_data(NewSelf, load_qa_data(qa_file, TRUE))
     IN  /\ qa_pairs = e.qa_pairs
         /\ questions = e.questions
         /\ answers = e.answers
         /\ question_vectors = e.question_vectors
         /\ answer_vectors = e.answer_vectors
         /\ vectorizer = e.vectorizer
  /\ last = NoCall
  /\ search_results = NoSearchResults
  /\ session = NewSession
  /\ response = NoResponse
  /\ threads = [t \in Threads |-> IdleThread]

Search(query) ==
  /\ LET result == search_qa(Self, query)
     IN  last' = [NoCall EXCEPT !.op = "search", !.query = query,
                                !.result = result, !.raised = result.raised]
  /\ UNCHANGED <<qa_file, qa_pairs, questions, answers, question_vectors,
                 answer_vectors, vectorizer>>

\* variant: the id is the number of records plus one
next_id_by_count(pairs) == Len(pairs) + 1

\* new_id = max([pair.get('id', 0) for pair in qa_pairs], default=0) + 1
next_id(pairs) == Max(Ids_of(pairs)) + 1

\* add_qa_pair(question, answer)
AddQaPair(question, answer, readOk, outcome, rereadOk) ==
  LET loaded == load_qa_data(qa_file, readOk)
      new_id == next_id(loaded)
      data == Append(loaded, [id |-> new_id, question |-> question,
                              answer |-> answer])
      file == save_qa_data(qa_file, data, outcome)
  IN  /\ Len(loaded) < MaxRecords
      /\ new_id <= MaxId
      /\ outcome = "truncated" => rereadOk
      /\ qa_file' = file
      /\ SetEngine(prepare_search_data(Self, load_qa_data(file, rereadOk)))
      /\ last' = [NoCall EXCEPT !.op = "add", !.qa_id = new_id,
                                !.question = question, !.answer = answer,
                                !.returned = TRUE]

\* update_qa_pair(qa_id, question, answer)
UpdateQaPair(qa_id, question, answer, readOk, outcome, rereadOk) ==
  LET loaded == load_qa_data(qa_file, readOk)
      found == qa_id \in Ids_of(loaded)
      data == [i \in 1..Len(loaded) |->
                 IF loaded[i].id = qa_id /\ \A j \in 1..(i - 1) : loaded[j].id # qa_id
                 THEN [loaded[i] EXCEPT !.question = question, !.answer = answer]
                 ELSE loaded[i]]
      file == save_qa_data(qa_file, data, outcome)
  IN  IF found
      THEN /\ outcome = "truncated" => rereadOk
           /\ qa_file' = file
           /\ SetEngine(prepare_search_data(Self, load_qa_data(file, rereadOk)))
           /\ last' = [NoCall EXCEPT !.op = "update", !.qa_id = qa_id,
                                     !.returned = TRUE]
      ELSE /\ outcome = "ok" /\ rereadOk
           /\ last' = [NoCall EXCEPT !.op = "update", !.qa_id = qa_id,
                                     !.returned = FALSE]
           /\ UNCHANGED <<qa_file, qa_pairs, questions, answers,
                          question_vectors, answer_vectors, vectorizer>>

\* variant: a list of the same length counts as a deletion
removed_or_same(filtered, original_count) == Len(filtered) <= original_count

\* if len(qa_pairs) < original_count
removed(filtered, original_count) == Len(filtered) < original_count

\* delete_qa_pair(qa_id)
DeleteQaPair(qa_id, readOk, outcome, rereadOk) ==
  LET loaded == load_qa_data(qa_file, readOk)
      data == SelectSeq(loaded, LAMBDA pair : pair.id # qa_id)
      file == save_qa_data(qa_file, data, outcome)
  IN  IF removed(data, Len(loaded))
      THEN /\ outcome = "truncated" => rereadOk
           /\ qa_file' = file
           /\ SetEngine(prepare_search_data(Self, load_qa_data(file, rereadOk)))
           /\ last' = [NoCall EXCEPT !.op = "delete", !.qa_id = qa_id,
                                     !.returned = TRUE]
      ELSE /\ outcome = "ok" /\ rereadOk
           /\ last' = [NoCall EXCEPT !.op = "delete", !.qa_id = qa_id,
                                     !.returned = FALSE]
           /\ UNCHANGED <<qa_file, qa_pairs, questions, answers,
                          question_vectors, answer_vectors, vectorizer>>

Next ==
  \/ \E query \in Queries : Search(query) /\ UNCHANGED web_vars
  \/ \E qa \in QAInputs, readOk \in BOOLEAN, outcome \in SaveOutcomes,
        rereadOk \in BOOLEAN :
       AddQaPair(qa[1], qa[2], readOk, outcome, rereadOk) /\ UNCHANGED web_vars
  \/ \E qa_id \in Ids, qa \in QAInputs, readOk \in BOOLEAN,
        outcome \in SaveOutcomes, rereadOk \in BOOLEAN :
       UpdateQaPair(qa_id, qa[1], qa[2], readOk, outcome, rereadOk)
       /\ UNCHANGED web_vars
  \/ \E qa_id \in Ids, readOk \in BOOLEAN, outcome \in SaveOutcomes,
        rereadOk \in BOOLEAN :
       DeleteQaPair(qa_id, readOk, outcome, rereadOk) /\ UNCHANGED web_vars

Spec == Init /\ [][Next]_vars

----------------------------------------------------------------------------
(* Query analysis on its own *)

\* the words of the queries of the analysis: question words, words that hold
\* a question word or a greeting inside, and other words
AnalysisWords == {"how", "show", "hi", "this", "bye", "me"}

\* one or two words, with and without a question mark, with a space before
\* the words and with a space after the question mark
AnalysisQueries ==
  UNION { { <<w>>, <<w, "?">>, <<" ", w>>, <<w, "?", " ">> } :
            w \in AnalysisWords }
  \cup UNION { { <<w, " ", v>>, <<w, " ", v, "?">> } :
                w \in AnalysisWords, v \in AnalysisWords }

GetContextualSearchResults(query) ==
  /\ search_results' =
       [called |-> TRUE, query |-> query,
        results |-> get_contextual_search_results(Self, query)]
  /\ UNCHANGED <<dm_vars, session, response, threads>>

AnalysisNext == \E query \in AnalysisQueries : GetContextualSearchResults(query)

AnalysisSpec == Init /\ [][AnalysisNext]_vars

----------------------------------------------------------------------------
(* AIService.get_intelligent_response (src/ai_service.py) and the chat     *)
(* route (src/app.py).  A response is its wording and its confidence; the  *)
(* wording is the template that produced it (the random pick among the     *)
(* texts of one template is left out) and the answer that it quotes.  A    *)
(* confidence string 'd.dd' is the number of its hundredths.               *)

\* self.client.models.generate_content: a text, no text, or an exception
GenerationOutcomes == {"text", "empty", "raises"}

\* f"{confidence:.2f}"
format_confidence(confidence) == RoundDiv(confidence * 100, One)

\* confidence >= num / 10
at_least_tenths(confidence, num) == confidence * 10 >= num * One

\* if answer: neither None nor the empty string
truthy(answer) == answer # None /\ answer # <<>>

Wording(template, text) == [template |-> template, text |-> text]

handle_greeting == [response |-> Wording("greeting", <<>>), confidence |-> 100]

handle_farewell == [response |-> Wording("farewell", <<>>), confidence |-> 100]

handle_small_talk == [response |-> Wording("small_talk", <<>>), confidence |-> 100]

handle_medium_confidence(answer, confidence, search_type) ==
  [response |-> Wording(IF search_type = "reverse_lookup"
                        THEN "Based on what I know"
                        ELSE "According to my information", lower(answer)),
   confidence |-> format_confidence(confidence)]

enhance_response_with_ai(answer, confidence, search_type, generation) ==
  IF generation = "text"
  THEN [response |-> Wording("generated", <<>>),
        confidence |-> format_confidence(confidence)]
  ELSE handle_medium_confidence(answer, confidence, search_type)

handle_no_match(analysis) ==
  [response |-> Wording(IF analysis.is_question THEN "no_match_question"
                        ELSE "no_match", <<>>),
   confidence |-> 0]

follow_up_patterns ==
  { Chars(<<"and", "?">>),
    Chars(<<"and", " ", "what", " ", "else", "?">>),
    Chars(<<"what", " ", "else", "?">>),
    Chars(<<"more">>),
    Chars(<<"tell", " ", "me", " ", "more">>),
    Chars(<<"anything", " ", "else", "?">>),
    Chars(<<"what", " ", "about", " ", "the", " ", "rest", "?">>),
    Chars(<<"continue">>),
    Chars(<<"go", " ", "on">>),
    Chars(<<"what", " ", "more", "?">>),
    Chars(<<"others", "?">>),
    Chars(<<"rest", "?">>),
    Chars(<<"more", " ", "info">>),
    Chars(<<"more", " ", "information">>) }

\* _is_follow_up_question, user_input being the string character by character
is_follow_up_question(user_input) ==
  LET user_lower == strip(str_lower(user_input))
  IN  \/ user_lower \in follow_up_patterns
      \/ EndsWith(user_lower, <<"?">>) /\ CountFields(user_lower) <= 3

\* _expand_previous_answer; its search on the last question has no effect on
\* what is returned
expand_previous_answer(last_question, generation) ==
  IF generation = "text"
  THEN [response |-> Wording("generated", <<>>), confidence |-> 75]
  ELSE [response |-> Wording("I provided information about", last_question),
        confidence |-> 50]

\* _handle_follow_up_question on a memory that is not empty
handle_follow_up_question(conversation_memory, generation) ==
  LET last_entry == conversation_memory[Len(conversation_memory)]
      last_confidence == last_entry.confidence
  IN  IF last_confidence >= 40
      THEN expand_previous_answer(last_entry.user_message, generation)
      ELSE [response |-> Wording("I wasn't very confident", <<>>),
            confidence |-> 0]

\* get_intelligent_response, lines 59-90: the response to the search results
respond_to_search_results(found, generation) ==
  IF found.query_analysis.is_greeting THEN handle_greeting
  ELSE IF found.query_analysis.is_farewell THEN handle_farewell
  ELSE IF found.query_analysis.is_small_talk THEN handle_small_talk
  ELSE IF truthy(found.answer) /\ at_least_tenths(found.confidence, 4)
  THEN enhance_response_with_ai(found.answer, found.confidence,
                                found.search_type, generation)
  ELSE IF truthy(found.answer) /\ at_least_tenths(found.confidence, 2)
  THEN handle_medium_confidence(found.answer, found.confidence,
                                found.search_type)
  ELSE handle_no_match(found.query_analysis)

\* get_intelligent_response(user_input, data_manager, conversation_memory)
get_intelligent_response(user_input, self, conversation_memory, generation) ==
  IF is_follow_up_question(Chars(user_input)) /\ conversation_memory # <<>>
  THEN handle_follow_up_question(conversation_memory, generation)
  ELSE respond_to_search_results(
         get_contextual_search_results(self, user_input), generation)

\* the number of exchanges that the chat route keeps in the session
memory_limit == 5

\* variant: the first exchanges are kept
keep_first_exchanges(memory) ==
  IF Len(memory) > memory_limit THEN SubSeq(memory, 1, memory_limit)
  ELSE memory

\* if len(memory) > 5: memory = memory[-5:]
keep_last_exchanges(memory) ==
  IF Len(memory) > memory_limit
  THEN SubSeq(memory, Len(memory) - memory_limit + 1, Len(memory))
  ELSE memory

\* chat, lines 53-58
conversation_entry(message, response_data, memory) ==
  [user_message |-> message, bot_response |-> response_data.response,
   confidence |-> response_data.confidence, timestamp |-> Len(memory)]

\* chat, lines 53-72: the memory and the response for the data of the service
Remember(form_message, message, response_data) ==
  /\ session' =
       [session EXCEPT !.conversation_memory =
          keep_last_exchanges(
            Append(session.conversation_memory,
                   conversation_entry(message, response_data,
                                      session.conversation_memory)))]
  /\ response' = [route |-> "chat", message |-> form_message,
                  status |-> 200, body |-> response_data]

\* POST /chat with the form field message (strip works on tokens as it does
\* on characters: a space is a token)
Chat(form_message, generation) ==
  /\ IF strip(form_message) = <<>>
     THEN /\ response' = [route |-> "chat", message |-> form_message,
                           status |-> 400]
          /\ UNCHANGED session
     ELSE Remember(form_message, strip(form_message),
                   get_intelligent_response(strip(form_message), Self,
                                            session.conversation_memory,
                                            generation))
  /\ UNCHANGED <<dm_vars, search_results, threads>>

\* the messages of a conversation: greetings, small talk and a farewell, with
\* and without a question mark, the default question, a name that occurs in
\* an answer, a follow-up, a message without any match, and a blank message
ChatMessages ==
  { <<"hi">>,
    <<"hello", "?">>,
    <<"how", " ", "are", " ", "you", "?">>,
    <<"bye">>,
    <<"Who", " ", "is", " ", "the", " ", "principal", " ", "of", " ", "APS",
      " ", "Mangla", "?">>,
    <<"Talat">>,
    <<"more">>,
    <<"show", " ", "me">>,
    <<" ">> }

ChatNext ==
  \E form_message \in ChatMessages, generation \in GenerationOutcomes :
    /\ Len(session.conversation_memory) < MaxTurns
    /\ Chat(form_message, generation)

ChatSpec == Init /\ [][ChatNext]_vars

\* the messages of a long session: an empty and a blank message, a greeting
\* and a name that occurs in an answer
SessionMessages == { <<>>, <<" ">>, <<"hi">>, <<"Talat">> }

SessionNext ==
  \E form_message \in SessionMessages, generation \in GenerationOutcomes :
    Chat(form_message, generation)

SessionSpec == Init /\ [][SessionNext]_vars

----------------------------------------------------------------------------
(* The admin routes (src/app.py) and verify_admin_credentials *)

\* werkzeug's salted hash, taken to be free of collisions
generate_password_hash(password) == <<"pbkdf2", password>>
check_password_hash(pwhash, password) == pwhash = generate_password_hash(password)

\* data/admin_credentials.json as _initialize_files writes it
default_admin ==
  [username |-> "admin", password_hash |-> generate_password_hash("admin")]

\* _load_admin_credentials: a failed read gives {}
load_admin_credentials(readOk) ==
  IF readOk THEN default_admin
  ELSE [username |-> Absent, password_hash |-> None]

verify_admin_credentials(username, password, readOk) ==
  LET admin_data == load_admin_credentials(readOk)
  IN  IF admin_data.username = Absent \/ admin_data.password_hash = None
      THEN FALSE
      ELSE /\ username = admin_data.username
           /\ check_password_hash(admin_data.password_hash, password)

\* the form fields of a login: the stored credentials, a wrong password, a
\* wrong username, and forms with an empty field
Credentials ==
  { <<"admin", "admin">>, <<"admin", "guess">>, <<"root", "admin">>,
    <<"", "admin">>, <<"admin", "">> }

\* a redirect to url_for(endpoint)
Redirect(route, endpoint) ==
  [route |-> route, status |-> 302, location |-> endpoint]

\* /admin/login
AdminLogin(method, username, password, readOk) ==
  /\ IF /\ method = "POST"
        /\ username # "" /\ password # ""
        /\ verify_admin_credentials(username, password, readOk)
     THEN /\ session' = [session EXCEPT !.admin_authenticated = TRUE,
                                        !.admin_username = username]
          /\ response' = [route |-> "admin_login", status |-> 302,
                           location |-> "admin",
                           form |-> <<username, password>>]
     ELSE /\ response' = [route |-> "admin_login", status |-> 200,
                           location |-> "login.html",
                           form |-> <<username, password>>]
          /\ UNCHANGED session
  /\ UNCHANGED <<dm_vars, search_results, threads>>

\* /admin/logout
AdminLogout ==
  /\ session' = [session EXCEPT !.admin_authenticated = FALSE,
                                !.admin_username = Absent]
  /\ response' = Redirect("admin_logout", "index")
  /\ UNCHANGED <<dm_vars, search_results, threads>>

\* variant: every session passes the check
admin_authenticated_unchecked(sess) == TRUE

\* session.get('admin_authenticated')
admin_authenticated(sess) == sess.admin_authenticated

\* /admin/add (strip on a text without spaces at its ends leaves it as it is)
AdminAddQaPair(question, answer, readOk, outcome, rereadOk) ==
  /\ IF ~admin_authenticated(session)
     THEN /\ response' = Redirect("add_qa_pair", "admin_login")
          /\ UNCHANGED dm_vars
     ELSE /\ response' = Redirect("add_qa_pair", "admin")
          /\ IF strip(question) # <<>> /\ strip(answer) # <<>>
             THEN AddQaPair(strip(question), strip(answer), readOk, outcome,
                            rereadOk)
             ELSE UNCHANGED dm_vars
  /\ UNCHANGED <<search_results, session, threads>>

\* /admin/edit/<int:qa_id>
AdminEditQaPair(qa_id, question, answer, readOk, outcome, rereadOk) ==
  /\ IF ~admin_authenticated(session)
     THEN /\ response' = Redirect("edit_qa_pair", "admin_login")
          /\ UNCHANGED dm_vars
     ELSE /\ response' = Redirect("edit_qa_pair", "admin")
          /\ IF strip(question) # <<>> /\ strip(answer) # <<>>
             THEN UpdateQaPair(qa_id, strip(question), strip(answer), readOk,
                               outcome, rereadOk)
             ELSE UNCHANGED dm_vars
  /\ UNCHANGED <<search_results, session, threads>>

\* /admin/delete/<int:qa_id>
AdminDeleteQaPair(qa_id, readOk, outcome, rereadOk) ==
  /\ IF ~admin_authenticated(session)
     THEN /\ response' = Redirect("delete_qa_pair", "admin_login")
          /\ UNCHANGED dm_vars
     ELSE /\ response' = Redirect("delete_qa_pair", "admin")
          /\ DeleteQaPair(qa_id, readOk, outcome, rereadOk)
  /\ UNCHANGED <<search_results, session, threads>>

\* the form fields of add and edit: a question with an answer, a pair made
\* of stop words, and a form with an empty question
FormInputs ==
  { <<<<"Who", "is", "the", "principal", "of", "APS", "Mangla">>, <<"Wazir">>>>,
    <<<<"Who", "are", "you">>, <<"I", "am">>>>,
    <<<<>>, <<"Wazir">>>> }

AdminNext ==
  \/ \E method \in {"GET", "POST"}, form \in Credentials, readOk \in BOOLEAN :
       AdminLogin(method, form[1], form[2], readOk)
  \/ AdminLogout
  \/ \E qa \in FormInputs, readOk \in BOOLEAN, outcome \in SaveOutcomes,
        rereadOk \in BOOLEAN :
       AdminAddQaPair(qa[1], qa[2], readOk, outcome, rereadOk)
  \/ \E qa_id \in Ids, qa \in FormInputs, readOk \in BOOLEAN,
        outcome \in SaveOutcomes, rereadOk \in BOOLEAN :
       AdminEditQaPair(qa_id, qa[1], qa[2], readOk, outcome, rereadOk)
  \/ \E qa_id \in Ids, readOk \in BOOLEAN, outcome \in SaveOutcomes,
        rereadOk \in BOOLEAN :
       AdminDeleteQaPair(qa_id, readOk, outcome, rereadOk)

AdminSpec == Init /\ [][AdminNext]_vars

----------------------------------------------------------------------------
(* Requests handled by several threads.  The DataManager holds no lock, so *)
(* the statements of add_qa_pair, _prepare_search_data and search_qa of    *)
(* different threads interleave; a read or a write of the file is one      *)
(* step.  Reads and writes succeed here.                                   *)

ConcInputs ==
  { <<<<"Principal", "of", "APS", "Mangla">>,
      <<"the", "principal", "of", "APS", "Mangla">>>>,
    <<<<"Who", "are", "you">>, <<"I", "am">>>> }

ConcQueries == { <<"Who", "is", "Talat", "Wazir">> }

Goto(t, pc) == threads' = [threads EXCEPT ![t].pc = pc]

\* add_qa_pair, lines 229-230: the call and qa_data = self._load_qa_data()
AddLoad(t, question, answer) ==
  /\ threads[t].pc = "idle"
  /\ Len(load_qa_data(qa_file, TRUE)) < MaxRecords
  /\ next_id(load_qa_data(qa_file, TRUE)) <= MaxId
  /\ threads' = [threads EXCEPT ![t] =
                   [IdleThread EXCEPT !.pc = "add_save", !.op = "add",
                                      !.question = question,
                                      !.answer = answer,
                                      !.loaded = load_qa_data(qa_file, TRUE)]]
  /\ UNCHANGED <<dm_vars, search_results, session, response>>

\* add_qa_pair, lines 233-243: the new id, the append and _save_qa_data
AddSave(t) ==
  /\ threads[t].pc = "add_save"
  /\ qa_file' =
       save_qa_data(qa_file,
                    Append(threads[t].loaded,
                           [id |-> next_id(threads[t].loaded),
                            question |-> threads[t].question,
                            answer |-> threads[t].answer]),
                    "ok")
  /\ threads' = [threads EXCEPT ![t].pc = "rebuild_load",
                                ![t].new_id = next_id(threads[t].loaded)]
  /\ UNCHANGED <<qa_pairs, questions, answers, question_vectors,
                 answer_vectors, vectorizer, last, search_results, session,
                 response>>

\* _prepare_search_data, lines 99-100
RebuildLoad(t) ==
  /\ threads[t].pc = "rebuild_load"
  /\ threads' = [threads EXCEPT ![t].pairs = load_qa_data(qa_file, TRUE),
                                ![t].pc = "rebuild_lists"]
  /\ UNCHANGED <<dm_vars, search_results, session, response>>

\* _prepare_search_data, lines 111-113 (a list that was just written is not
\* empty)
RebuildLists(t) ==
  /\ threads[t].pc = "rebuild_lists"
  /\ questions' = [i \in 1..Len(threads[t].pairs) |->
                     threads[t].pairs[i].question]
  /\ answers' = [i \in 1..Len(threads[t].pairs) |->
                   threads[t].pairs[i].answer]
  /\ qa_pairs' = threads[t].pairs
  /\ Goto(t, "rebuild_fit")
  /\ UNCHANGED <<qa_file, question_vectors, answer_vectors, vectorizer, last,
                 search_results, session, response>>

\* the combined_texts of line 116
combined_texts(pairs) ==
  [i \in 1..Len(pairs) |-> pairs[i].question \o pairs[i].answer]

\* _prepare_search_data, line 120, and lines 124-127 when fit raises
RebuildFit(t) ==
  /\ threads[t].pc = "rebuild_fit"
  /\ IF FitRaises(combined_texts(threads[t].pairs))
     THEN /\ question_vectors' = NoVectors
          /\ answer_vectors' = NoVectors
          /\ Goto(t, "add_return")
          /\ UNCHANGED vectorizer
     ELSE /\ vectorizer' =
               vectorizer_fit(Self, combined_texts(threads[t].pairs))
          /\ Goto(t, "rebuild_questions")
          /\ UNCHANGED <<question_vectors, answer_vectors>>
  /\ UNCHANGED <<qa_file, qa_pairs, questions, answers, last, search_results,
                 session, response>>

\* _prepare_search_data, line 121: transform(self.questions) by the vectorizer
\* as it is now
RebuildQuestions(t) ==
  /\ threads[t].pc = "rebuild_questions"
  /\ question_vectors' = [fit |-> vectorizer.corpus, texts |-> questions]
  /\ Goto(t, "rebuild_answers")
  /\ UNCHANGED <<qa_file, qa_pairs, questions, answers, answer_vectors,
                 vectorizer, last, search_results, session, response>>

\* _prepare_search_data, line 122
RebuildAnswers(t) ==
  /\ threads[t].pc = "rebuild_answers"
  /\ answer_vectors' = [fit |-> vectorizer.corpus, texts |-> answers]
  /\ Goto(t, "add_return")
  /\ UNCHANGED <<qa_file, qa_pairs, questions, answers, question_vectors,
                 vectorizer, last, search_results, session, response>>

\* add_qa_pair, line 249: return True; the locals are gone
AddReturn(t) ==
  /\ threads[t].pc = "add_return"
  /\ threads' = [threads EXCEPT ![t] =
                   [IdleThread EXCEPT !.op = "add",
                                      !.question = threads[t].question,
                                      !.answer = threads[t].answer,
                                      !.new_id = threads[t].new_id,
                                      !.returned = TRUE]]
  /\ UNCHANGED <<dm_vars, search_results, session, response>>

\* search_qa, lines 135-136: the call and the test of the engine
SearchCheck(t, query) ==
  /\ threads[t].pc = "idle"
  /\ threads' = [threads EXCEPT ![t] =
                   [IdleThread EXCEPT
                      !.op = "search", !.query = query,
                      !.pc = IF qa_pairs = <<>> \/ question_vectors = NoVectors
                             THEN "idle" ELSE "search_transform"]]
  /\ UNCHANGED <<dm_vars, search_results, session, response>>

\* search_qa, line 140: the query vector, by the vectorizer as it is now
SearchTransform(t) ==
  /\ threads[t].pc = "search_transform"
  /\ threads' = [threads EXCEPT
                   ![t].query_vector = [fit |-> vectorizer.corpus,
                                        texts |-> <<threads[t].query>>],
                   ![t].pc = "search_questions"]
  /\ UNCHANGED <<dm_vars, search_results, session, response>>

\* search_qa, lines 143-145: the similarities to self.question_vectors as
\* they are now
SearchQuestions(t) ==
  /\ threads[t].pc = "search_questions"
  /\ threads' = [threads EXCEPT ![t].question_similarities = question_vectors,
                                ![t].pc = "search_answers"]
  /\ UNCHANGED <<dm_vars, search_results, session, response>>

\* search_qa, lines 148-150
SearchAnswers(t) ==
  /\ threads[t].pc = "search_answers"
  /\ threads' = [threads EXCEPT ![t].answer_similarities = answer_vectors,
                                ![t].pc = "search_decide"]
  /\ UNCHANGED <<dm_vars, search_results, session, response>>

\* the engine that a search has seen: the vectorizer of its query vector, the
\* matrices of its similarities and the list of its decision
seen_engine(thread, pairs) ==
  [qa_pairs |-> pairs, questions |-> thread.question_similarities.texts,
   answers |-> thread.answer_similarities.texts,
   question_vectors |-> thread.question_similarities,
   answer_vectors |-> thread.answer_similarities,
   vectorizer |-> [fitted |-> TRUE, corpus |-> thread.query_vector.fit]]

\* search_qa, lines 153-177: the decision on self.qa_pairs as they are now
\* (the list never gets shorter here), and the return
SearchDecide(t) ==
  /\ threads[t].pc = "search_decide"
  /\ threads' = [threads EXCEPT
                   ![t].result = search_qa(seen_engine(threads[t], qa_pairs),
                                           threads[t].query),
                   ![t].pairs = qa_pairs,
                   ![t].pc = "search_return"]
  /\ UNCHANGED <<dm_vars, search_results, session, response>>

SearchReturn(t) ==
  /\ threads[t].pc = "search_return"
  /\ threads' = [threads EXCEPT ![t] =
                   [IdleThread EXCEPT !.op = "search",
                                      !.query = threads[t].query,
                                      !.result = threads[t].result]]
  /\ UNCHANGED <<dm_vars, search_results, session, response>>

ConcNext ==
  \E t \in Threads :
    \/ \E qa \in ConcInputs : AddLoad(t, qa[1], qa[2])
    \/ AddSave(t)
    \/ RebuildLoad(t)
    \/ RebuildLists(t)
    \/ RebuildFit(t)
    \/ RebuildQuestions(t)
    \/ RebuildAnswers(t)
    \/ AddReturn(t)
    \/ \E query \in ConcQueries : SearchCheck(t, query)
    \/ SearchTransform(t)
    \/ SearchQuestions(t)
    \/ SearchAnswers(t)
    \/ SearchDecide(t)
    \/ SearchReturn(t)

ConcSpec == Init /\ [][ConcNext]_vars

----------------------------------------------------------------------------
(* Properties *)

Searched == last.op = "search"
EngineBuilt == qa_pairs # <<>> /\ question_vectors # NoVectors

\* the scores of a query against the rows of a matrix of the engine
Scores(query, matrix) ==
  LET model == Fit(vectorizer.corpus)
  IN  Similarities(Transform(model, lower(query)), matrix, model)

MaxOf(s) == CHOOSE m \in {s[i] : i \in 1..Len(s)} : \A i \in 1..Len(s) : s[i] <= m
FirstIndexOf(s, m) == CHOOSE i \in 1..Len(s) : s[i] = m /\ \A j \in 1..(i - 1) : s[j] # m

\* the terms of a text with their frequencies
TermCounts(text) ==
  LET toks == Tokens(text)
  IN  {<<t, Count(toks, t)>> : t \in Terms(toks)}

\* the new record of the last add
AddedRecord == [id |-> last.qa_id, question |-> last.question, answer |-> last.answer]

\* C1: once add_qa_pair(question, answer) has returned success, an immediately
\* following search_qa on the exact text of the question returns the answer.
C1_SearchAfterAdd ==
  [][(last.op = "add" /\ last.returned /\ last'.op = "search"
      /\ last'.query = last.question)
     => last'.result.answer = last.answer]_vars

\* C2: search_qa returns (answer[qIdx], qScore, question_match) if
\* qScore >= aScore and qScore >= minConfidence, else (answer[aIdx], aScore,
\* reverse_lookup) if aScore >= minConfidence, else (null, max(qScore, aScore),
\* no_match); the answer is non-null exactly when search_type is not no_match.
C2_DecisionRule ==
  /\ (Searched /\ EngineBuilt /\ last.query # NotAString) =>
       LET qs == Scores(last.query, question_vectors)
           as == Scores(last.query, answer_vectors)
           qScore == MaxOf(qs)
           aScore == MaxOf(as)
           qIdx == FirstIndexOf(qs, qScore)
           aIdx == FirstIndexOf(as, aScore)
       IN  IF qScore >= aScore /\ qScore >= min_confidence
           THEN /\ last.result.answer = qa_pairs[qIdx].answer
                /\ last.result.confidence = qScore
                /\ last.result.search_type = "question_match"
           ELSE IF aScore >= min_confidence
           THEN /\ last.result.answer = qa_pairs[aIdx].answer
                /\ last.result.confidence = aScore
                /\ last.result.search_type = "reverse_lookup"
           ELSE /\ last.result.answer = None
                /\ last.result.confidence = IF qScore >= aScore THEN qScore ELSE aScore
                /\ last.result.search_type = "no_match"
  /\ Searched => (last.result.answer # None <=> last.result.search_type # "no_match")

\* a search whose best question score and best answer score tie above the threshold
C2_Witness ==
  /\ Searched /\ EngineBuilt /\ last.query # NotAString
  /\ MaxOf(Scores(last.query, question_vectors))
       = MaxOf(Scores(last.query, answer_vectors))
  /\ MaxOf(Scores(last.query, question_vectors)) >= min_confidence
  /\ last.result.search_type = "question_match"

\* C3: whenever the knowledge base is empty, search_qa returns
\* (null, 0.0, no_match) for every query.
C3_EmptyKnowledgeBase ==
  (Searched /\ load_qa_data(qa_file, TRUE) = <<>>) =>
     /\ last.result.answer = None
     /\ last.result.confidence = 0
     /\ last.result.search_type = "no_match"
     /\ ~last.raised

\* a search of a text on a store that was emptied by the calls before
C3_Witness ==
  /\ Searched /\ last.query # NotAString
  /\ qa_file = [readable |-> TRUE, qa_pairs |-> <<>>]
  /\ vectorizer.fitted

\* C4 as stated: for every record r of a knowledge base, search_qa on the exact
\* text of r's question returns r's answer with search_type = question_match.
C4_ExactQuestionAsStated ==
  Searched =>
    \A i \in 1..Len(qa_pairs) :
      qa_pairs[i].question = last.query =>
        /\ last.result.search_type = "question_match"
        /\ last.result.answer = qa_pairs[i].answer

\* C4 amended: for every record r of the engine whose question keeps a term
\* (a token of two or more characters that is no stop word), search_qa on the
\* exact text of r's question returns search_type = question_match and the
\* answer of the first record whose question has the same terms as r's.
C4_ExactQuestion ==
  Searched =>
    \A i \in 1..Len(qa_pairs) :
      (qa_pairs[i].question = last.query /\ TermCounts(last.query) # {}) =>
        /\ last.result.search_type = "question_match"
        /\ \E k \in 1..i :
             /\ TermCounts(qa_pairs[k].question) = TermCounts(last.query)
             /\ \A j \in 1..(k - 1) :
                  TermCounts(qa_pairs[j].question) # TermCounts(last.query)
             /\ last.result.answer = qa_pairs[k].answer

\* a search on the question of the second of two records whose questions have
\* the same terms in different words, and different answers
C4_Witness ==
  /\ Searched /\ Len(qa_pairs) = 2
  /\ qa_pairs[2].question = last.query
  /\ qa_pairs[1].question # last.query
  /\ TermCounts(qa_pairs[1].question) = TermCounts(last.query)
  /\ qa_pairs[1].answer # qa_pairs[2].answer
  /\ last.result.answer = qa_pairs[1].answer

\* C5: the confidence returned by search_qa is in [0.0, 1.0].
C5_ConfidenceInUnitInterval ==
  Searched => (0 <= last.result.confidence /\ last.result.confidence <= One)

\* C6: a question_match returns the answer of the first record that attains
\* the best question score, a reverse_lookup that of the first record that
\* attains the best answer score; of two records with the same question text
\* the earlier one is returned.
C6_TieBreak ==
  (Searched /\ EngineBuilt /\ last.query # NotAString) =>
    /\ last.result.search_type = "question_match" =>
         LET qs == Scores(last.query, question_vectors)
         IN  last.result.answer = qa_pairs[FirstIndexOf(qs, MaxOf(qs))].answer
    /\ last.result.search_type = "reverse_lookup" =>
         LET as == Scores(last.query, answer_vectors)
         IN  last.result.answer = qa_pairs[FirstIndexOf(as, MaxOf(as))].answer
    /\ \A i, j \in 1..Len(qa_pairs) :
         (i < j /\ qa_pairs[i].question = qa_pairs[j].question
          /\ qa_pairs[i].answer # qa_pairs[j].answer
          /\ last.result.search_type = "question_match")
         => last.result.answer # qa_pairs[j].answer

\* a question_match on the text of two records with the same question text
C6_Witness ==
  /\ Searched /\ Len(qa_pairs) = 2
  /\ qa_pairs[1].question = qa_pairs[2].question
  /\ qa_pairs[1].answer # qa_pairs[2].answer
  /\ last.query = qa_pairs[1].question
  /\ last.result.search_type = "question_match"
  /\ last.result.answer = qa_pairs[1].answer

\* C7: update_qa_pair and delete_qa_pair with an id that no stored record has
\* return false without raising and leave the file and the engine unchanged.
C7_UnknownId ==
  [][(last'.op \in {"update", "delete"}
      /\ last'.qa_id \notin Ids_of(load_qa_data(qa_file, TRUE)))
     => /\ ~last'.returned
        /\ ~last'.raised
        /\ UNCHANGED <<qa_file, qa_pairs, questions, answers, question_vectors,
                       answer_vectors, vectorizer>>]_vars

\* a delete of an id that is not in a store that holds another record
C7_Witness ==
  /\ last.op = "delete" /\ ~last.returned
  /\ qa_file.readable /\ qa_file.qa_pairs # <<>>
  /\ last.qa_id \notin Ids_of(qa_file.qa_pairs)
  /\ qa_pairs = qa_file.qa_pairs

\* C8: a return value of success of add_qa_pair implies that the record is in
\* the persisted store.
C8_AddedIsPersisted ==
  (last.op = "add" /\ last.returned) =>
    /\ qa_file.readable
    /\ \E i \in 1..Len(qa_file.qa_pairs) : qa_file.qa_pairs[i] = AddedRecord

C10_SearchNeverRaises ==
  Searched =>
    /\ ~last.raised
    /\ ~last.result.raised
    /\ (last.query = NotAString \/ question_vectors = NoVectors) =>
         /\ last.result.answer = None
         /\ last.result.confidence = 0
         /\ last.result.search_type = "no_match"

\* a search of a text on an engine that holds records and no vectors
C10_Witness ==
  /\ Searched /\ last.query # NotAString
  /\ qa_pairs # <<>>
  /\ question_vectors = NoVectors
  /\ ~last.raised

\* the question and answer similarity scores of a query on the engine fields
\* self, when search_qa computes them
ScoresOf(self, query) ==
  IF self.qa_pairs = <<>> \/ self.question_vectors = NoVectors
     \/ SearchRaises(self, query)
  THEN <<>>
  ELSE LET model == Fit(self.vectorizer.corpus)
           query_vector == Transform(model, lower(query))
       IN  <<Similarities(query_vector, self.question_vectors, model),
             Similarities(query_vector, self.answer_vectors, model)>>

\* the list of the persisted store
Stored == load_qa_data(qa_file, TRUE)

\* C11: between operations the record list of the engine is the record list
\* of the persisted store, and the engine holds one question row and one
\* answer row per stored record, in the order of the records.
C11_EngineIsStore ==
  /\ qa_pairs = Stored
  /\ questions = [i \in 1..Len(Stored) |-> Stored[i].question]
  /\ answers = [i \in 1..Len(Stored) |-> Stored[i].answer]
  /\ Stored # <<>> =>
       /\ question_vectors.texts = questions
       /\ answer_vectors.texts = answers

\* two engines give every query the same scores and the same search_qa result
\* (as equal engine fields do, search_qa being a function of them)
SameAnswers(e1, e2) ==
  \/ e1 = e2
  \/ \A query \in Queries :
       /\ ScoresOf(e1, query) = ScoresOf(e2, query)
       /\ search_qa(e1, query) = search_qa(e2, query)

\* C14: a rebuild over the stored content yields the same scores and the same
\* search_qa result for every query as a second rebuild over the same content
\* and as a rebuild by a new vectorizer; the engine that was rebuilt over the
\* stored content answers as a newly built one.
C14_RebuildIdempotent ==
  LET once == prepare_search_data(Self, Stored)
      twice == prepare_search_data(once, Stored)
      fresh == prepare_search_data(NewSelf, Stored)
  IN  /\ SameAnswers(twice, once)
      /\ SameAnswers(fresh, once)
      /\ qa_pairs = Stored => SameAnswers(Self, fresh)

\* an engine with vectors, rebuilt by an update that changed the default
\* record, hence by a vectorizer that was fitted on another corpus before
C14_Witness ==
  /\ last.op = "update" /\ last.returned
  /\ qa_pairs = Stored /\ Len(qa_pairs) = 1
  /\ qa_pairs[1] # default_qa_pair
  /\ question_vectors # NoVectors
  /\ vectorizer.corpus = question_vectors.fit

\* C15: a file that cannot be read or parsed loads as the empty list without
\* raising, and the engine built from it answers every query with
\* (null, 0.0, no_match).
C15_UnreadableStore ==
  ~qa_file.readable =>
    /\ load_qa_data(qa_file, TRUE) = <<>>
    /\ qa_pairs = <<>> /\ question_vectors = NoVectors
    /\ \A query \in Queries :
         search_qa(prepare_search_data(NewSelf, load_qa_data(qa_file, TRUE)),
                   query) = NoMatch
    /\ Searched => (last.result = NoMatch /\ ~last.raised)

\* a search of a text on the engine that was rebuilt from an unreadable file,
\* with a vectorizer that was fitted before
C15_Witness ==
  /\ ~qa_file.readable
  /\ Searched /\ last.query # NotAString
  /\ vectorizer.fitted

\* C18: after add_qa_pair has returned success the persisted list is the list
\* that was stored before the call followed by exactly one new record, also
\* when a read of the store fails during the call.
C18_AddOnlyAppends ==
  [][(last'.op = "add" /\ last'.returned)
     => LET before == load_qa_data(qa_file, TRUE)
            after == load_qa_data(qa_file', TRUE)
        IN  /\ Len(after) = Len(before) + 1
            /\ SubSeq(after, 1, Len(before)) = before
            /\ after[Len(after)] = AddedRecord']_vars

\* C13: is_question is true exactly when one of what, who, when, where, why,
\* how, which is a word of the query or the query ends with '?'; a query that
\* holds these only inside longer words and does not end with '?' is not
\* flagged.
C13_IsQuestion ==
  search_results.called =>
    LET query == search_results.query
        words == Words(query)
    IN  search_results.results.query_analysis.is_question
          <=> \/ \E i \in 1..Len(words) : Lower(words[i]) \in question_words
              \/ (query # <<>> /\ query[Len(query)] = "?")

Chatted == response.route = "chat" /\ response.status = 200

\* C16: for every message and every conversation state, a message whose
\* analysis has is_greeting gets a greeting response, otherwise one with
\* is_farewell a farewell response, otherwise one with is_small_talk a
\* small-talk response, and only otherwise the search result is used
\* (confidence >= 0.4 high tier, >= 0.2 medium tier, else fallback).
C16_Precedence ==
  Chatted =>
    LET message == strip(response.message)
        found == get_contextual_search_results(Self, message)
        analysis == found.query_analysis
        template == response.body.response.template
    IN  IF analysis.is_greeting THEN template = "greeting"
        ELSE IF analysis.is_farewell THEN template = "farewell"
        ELSE IF analysis.is_small_talk THEN template = "small_talk"
        ELSE IF truthy(found.answer) /\ at_least_tenths(found.confidence, 4)
        THEN /\ template \in {"generated", "According to my information",
                               "Based on what I know"}
             /\ response.body.confidence = format_confidence(found.confidence)
        ELSE IF truthy(found.answer) /\ at_least_tenths(found.confidence, 2)
        THEN /\ template \in {"According to my information",
                               "Based on what I know"}
             /\ response.body.confidence = format_confidence(found.confidence)
        ELSE template \in {"no_match", "no_match_question"}

\* C17: for every message, knowledge base and conversation memory the
\* confidence that get_intelligent_response reports is the same whether the
\* generation call returns a text, returns no text or raises, and a response
\* is returned in all three cases.
C17_GenerationOnlyWording ==
  \A form_message \in ChatMessages :
    strip(form_message) # <<>> =>
      \A g1, g2 \in GenerationOutcomes :
        LET r1 == get_intelligent_response(strip(form_message), Self,
                                           session.conversation_memory, g1)
            r2 == get_intelligent_response(strip(form_message), Self,
                                           session.conversation_memory, g2)
        IN  /\ r1.response.template # ""
            /\ r1.confidence = r2.confidence

\* C19: a chat request with a message that is not blank appends exactly one
\* entry, the exchange of this request, and drops only the oldest entries,
\* so that the memory holds the most recent exchanges, at most 5, in the order
\* of arrival; a request with an empty or blank message leaves the memory as
\* it is.
C19_MemoryBounded ==
  [][response'.route = "chat" =>
       LET before == session.conversation_memory
           after == session'.conversation_memory
           kept == Len(after) - 1
       IN  IF strip(response'.message) = <<>> THEN after = before
           ELSE /\ Len(after) <= 5
                /\ Len(after) = IF Len(before) < 5 THEN Len(before) + 1 ELSE 5
                /\ after[Len(after)].user_message = strip(response'.message)
                /\ after[Len(after)].bot_response = response'.body.response
                /\ after[Len(after)].confidence = response'.body.confidence
                /\ SubSeq(after, 1, kept)
                     = SubSeq(before, Len(before) - kept + 1, Len(before))]_vars

\* a memory of 5 entries after 6 or more messages: the first message of the
\* session has been dropped, the last entry was appended to a full memory
C19_Witness ==
  /\ Chatted
  /\ Len(session.conversation_memory) = 5
  /\ session.conversation_memory[1].timestamp = 1
  /\ session.conversation_memory[5].timestamp = 5
  /\ session.conversation_memory[5].user_message # session.conversation_memory[4].user_message

\* C20: in a session, the knowledge base (the file and the engine) is changed
\* only by an add, edit or delete request made while the session is
\* authenticated; the session becomes authenticated only by a login request
\* and is not authenticated after a logout; an add, edit or delete request of
\* a session that is not authenticated leaves the knowledge base unchanged and
\* redirects to the login page.
C20_AdminGating ==
  [][/\ dm_vars' # dm_vars =>
          /\ session.admin_authenticated
          /\ response'.route \in {"add_qa_pair", "edit_qa_pair", "delete_qa_pair"}
     /\ (session'.admin_authenticated /\ ~session.admin_authenticated) =>
          /\ response'.route = "admin_login"
          /\ response'.form[1] = default_admin.username
          /\ check_password_hash(default_admin.password_hash, response'.form[2])
          /\ session'.admin_username = response'.form[1]
     /\ response'.route = "admin_logout" => ~session'.admin_authenticated
     /\ (response'.route \in {"add_qa_pair", "edit_qa_pair", "delete_qa_pair"}
         /\ ~session.admin_authenticated) =>
          /\ UNCHANGED dm_vars
          /\ response'.location = "admin_login"]_vars

\* a delete request that was redirected to the login page, in a session that
\* logged in, added a record and logged out before
C20_Witness ==
  /\ response.route = "delete_qa_pair"
  /\ response.location = "admin_login"
  /\ ~session.admin_authenticated
  /\ last.op = "add" /\ last.returned
  /\ qa_file.readable /\ Len(qa_file.qa_pairs) = 2

\* the record that the last add of a thread wrote
AddedBy(t) ==
  [id |-> threads[t].new_id, question |-> threads[t].question,
   answer |-> threads[t].answer]

AddReturned(t) == threads[t].op = "add" /\ threads[t].returned

\* C12: with requests handled at the same time, no mutation is lost (the
\* records of the adds that have returned are all in the persisted list, two
\* of them under distinct ids), and a search computes its similarities with a
\* query vector and matrices of one vocabulary, the matrices being those of
\* the persisted list.
C12_AtomicMutations ==
  /\ \A t \in Threads :
       AddReturned(t) =>
         \E i \in 1..Len(qa_file.qa_pairs) : qa_file.qa_pairs[i] = AddedBy(t)
  /\ \A t1, t2 \in Threads :
       (t1 # t2 /\ AddReturned(t1) /\ AddReturned(t2)) =>
         threads[t1].new_id # threads[t2].new_id
  /\ \A t \in Threads :
       threads[t].pc \in {"search_answers", "search_decide"} =>
         /\ threads[t].question_similarities.fit = threads[t].query_vector.fit
         /\ threads[t].question_similarities.texts
              = [i \in 1..Len(Stored) |-> Stored[i].question]
====
